---- MODULE Spec2Model ----
(***************************************************************************)
(* Model of the retrying token fetch (fetchTokenWithRetry), the readiness  *)
(* poller (waitForDeployment) and the alias target resolver                *)
(* (getDeploymentForAlias) of now-cli.                                     *)
(*                                                                         *)
(* Every promise-returning function is modelled at the granularity of its  *)
(* await points: one action per settlement of an awaited promise, per      *)
(* timer callback and per promise-chain reaction.                          *)
(***************************************************************************)
EXTENDS Integers, Sequences, FiniteSets, TLC

VARIABLES
    frames,       \* fetchTokenWithRetry: one frame per invocation, outermost first
    attemptLog,   \* fetchTokenWithRetry: outcome of every finished attempt, in order
    logLines,     \* console.log lines: the "Retries remaining" number of each line
    timers,       \* delays (ms) handed to setTimeout, in order
    requests,     \* every HTTP request issued through fetch, in order
    wpc,          \* waitForDeployment: control state
    probeLog,     \* waitForDeployment: what every finished probe observed, in order
    sleeps,       \* waitForDeployment: durations (ms) handed to sleep, in order
    wError,       \* waitForDeployment: the error its promise rejected with
    serverReady,  \* the probed endpoint: TRUE once it answers every probe with 200
    info,         \* fetchTokenInformation: its invocation (the promise it returned)
    spc,          \* test.before: control state
    sToken,       \* test.before: const token
    writes,       \* test.before: the writeFile calls, in order
    apc,          \* getDeploymentForAlias: control state
    aIn,          \* getDeploymentForAlias: the arguments of the invocation
    calls,        \* getDeploymentForAlias: collaborator calls, in order
    warnings,     \* getDeploymentForAlias: number of output.warn calls
    waitStarted,  \* getDeploymentForAlias: number of wait(...) indicators started
    cancelCount,  \* getDeploymentForAlias: number of cancelWait() calls
    appName,      \* getDeploymentForAlias: const appName, what getAppName returned
    deployment,   \* getDeploymentForAlias: const deployment, what the lookup returned
    aResult,      \* getDeploymentForAlias: the value returned to the caller
    aError        \* getDeploymentForAlias: the error thrown to the caller

retryVars == <<frames, attemptLog, logLines, timers>>
pollVars  == <<wpc, probeLog, sleeps, wError, serverReady>>
setupVars == <<info, spc, sToken, writes>>
aliasVars == <<apc, aIn, calls, warnings, waitStarted, cancelCount, appName, deployment,
               aResult, aError>>
vars == <<frames, attemptLog, logLines, timers, requests, wpc, probeLog, sleeps,
          wError, serverReady, info, spc, sToken, writes, apc, aIn, calls, warnings, waitStarted, cancelCount, appName, deployment,
          aResult, aError>>

----------------------------------------------------------------------------
(* Bounds of the model *)

MaxRetries == 3
MaxProbes == 4
MaxArgs == 3

----------------------------------------------------------------------------
(* Values shared by the components *)

Undefined == "undefined"

\* An error object; id tells the error objects of different failures apart.
NoError == [name |-> "none", id |-> 0]

MkError(name, id) == [name |-> name, id |-> id]

NoAuth == "none"

----------------------------------------------------------------------------
(* fetchTokenWithRetry                                                     *)

TokenUrl == "token-url"

\* A delay that grows with the number of retries already made.
RetryDelayGrowing == 500 * (Len(timers) + 1)

RetryDelay == 500

\* The JSON bodies the token endpoint may answer with.
TokenBodies ==
    { [token |-> t, user |-> Undefined] : t \in {"tokA", "tokB", Undefined} }

\* const url = `https://api.zeit.co/www/user`
UserUrl == "user-url"

\* The JSON bodies the user-info endpoint may answer with.
UserBodies ==
    { [token |-> Undefined, user |-> u] : u \in {"userA", "userB"} }

\* What res.json() may yield for a response of `url`.
BodiesOf(url) == IF url = UserUrl THEN UserBodies ELSE TokenBodies

\* fetch(url): no options, so no Authorization header and redirects followed.
TokenRequest(url) == [url |-> url, auth |-> NoAuth, redirect |-> "follow"]

NewFrame(url, retries) ==
    [url |-> url, retries |-> retries, pc |-> "fetching",
     settled |-> "pending", value |-> Undefined, reason |-> NoError]

Settled(f) == f.settled # "pending"

\* resolve(data.token)
ResolvedValueUser(data) == data.user

ResolvedValue(data) == data.token

\* if (retries === 0)
ExhaustedOffByOne(retries) == retries <= 1

Exhausted(retries) == retries = 0

\* reject(error)
RejectionTagged(error) == [name |-> "AcquisitionExhausted", id |-> error.id]

Rejection(error) == error

\* fetchTokenWithRetry(url, retries - 2)
NextRetriesByTwo(retries) == retries - 2

\* fetchTokenWithRetry(url, retries - 1)
NextRetries(retries) == retries - 1

\* resolve(...) and reject(...) settle a promise only while it is pending.
Resolve(f, v) ==
    IF Settled(f) THEN f ELSE [f EXCEPT !.settled = "resolved", !.value = v]

Reject(f, e) ==
    IF Settled(f) THEN f ELSE [f EXCEPT !.settled = "rejected", !.reason = e]

Top == Len(frames)

\* A catch block that logs only when it is going to retry.
CatchLogsOnlyOnRetry(outcome, error) ==
    LET f == frames[Top] IN
    /\ attemptLog' = Append(attemptLog, [outcome |-> outcome, error |-> error,
                                          data |-> [token |-> Undefined, user |-> Undefined]])
    /\ IF Exhausted(f.retries)
       THEN /\ frames' = [frames EXCEPT ![Top] = [Reject(f, Rejection(error)) EXCEPT !.pc = "done"]]
            /\ timers' = timers
            /\ logLines' = logLines
       ELSE /\ frames' = [frames EXCEPT ![Top].pc = "timer"]
            /\ timers' = Append(timers, RetryDelay)
            /\ logLines' = Append(logLines, f.retries)

\* The catch block of the innermost invocation, entered with `error`.
Catch(outcome, error) ==
    LET f == frames[Top] IN
    /\ attemptLog' = Append(attemptLog, [outcome |-> outcome, error |-> error,
                                          data |-> [token |-> Undefined, user |-> Undefined]])
    /\ logLines' = Append(logLines, f.retries)
    /\ IF Exhausted(f.retries)
       THEN /\ frames' = [frames EXCEPT ![Top] = [Reject(f, Rejection(error)) EXCEPT !.pc = "done"]]
            /\ timers' = timers
       ELSE /\ frames' = [frames EXCEPT ![Top].pc = "timer"]
            /\ timers' = Append(timers, RetryDelay)

\* The call from test.before: the executor runs synchronously up to await fetch(url).
FetchTokenWithRetry ==
    /\ frames = <<>>
    /\ \E n \in 0..MaxRetries :
          frames' = <<NewFrame(TokenUrl, n)>>
    /\ requests' = Append(requests, TokenRequest(TokenUrl))
    /\ UNCHANGED <<attemptLog, logLines, timers>>
    /\ UNCHANGED <<pollVars, aliasVars, setupVars>>

\* await fetch(url) settles with a response.
TokenFetchResponds ==
    /\ Top >= 1
    /\ frames[Top].pc = "fetching"
    /\ frames' = [frames EXCEPT ![Top].pc = "parsing"]
    /\ UNCHANGED <<attemptLog, logLines, timers, requests>>
    /\ UNCHANGED <<pollVars, aliasVars, setupVars>>

\* await fetch(url) rejects.
TokenFetchFails ==
    /\ Top >= 1
    /\ frames[Top].pc = "fetching"
    /\ Catch("fetchfail", MkError("FetchError", Len(attemptLog) + 1))
    /\ UNCHANGED requests
    /\ UNCHANGED <<pollVars, aliasVars, setupVars>>

\* await res.json() settles with the parsed body; resolve(data.token).
TokenJsonParsed ==
    /\ Top >= 1
    /\ frames[Top].pc = "parsing"
    /\ \E data \in BodiesOf(frames[Top].url) :
          /\ frames' = [frames EXCEPT
                          ![Top] = [Resolve(frames[Top], ResolvedValue(data)) EXCEPT !.pc = "done"]]
          /\ attemptLog' = Append(attemptLog, [outcome |-> "ok", error |-> NoError, data |-> data])
    /\ UNCHANGED <<logLines, timers, requests>>
    /\ UNCHANGED <<pollVars, aliasVars, setupVars>>

\* await res.json() rejects (the body is no JSON).
TokenJsonFails ==
    /\ Top >= 1
    /\ frames[Top].pc = "parsing"
    /\ Catch("jsonfail", MkError("SyntaxError", Len(attemptLog) + 1))
    /\ UNCHANGED requests
    /\ UNCHANGED <<pollVars, aliasVars, setupVars>>

\* A retry written as a loop: the timer callback re-runs the attempt inside the
\* one invocation instead of creating a new one.
RetryTimerFiresIterative ==
    /\ Top >= 1
    /\ frames[Top].pc = "timer"
    /\ LET f == frames[Top] IN
          /\ frames' = [frames EXCEPT ![Top] = NewFrame(f.url, NextRetries(f.retries))]
          /\ requests' = Append(requests, TokenRequest(f.url))
    /\ UNCHANGED <<attemptLog, logLines, timers>>
    /\ UNCHANGED <<pollVars, aliasVars, setupVars>>

\* A retry timer armed when the attempt starts instead of in its catch block:
\* the next attempt is issued while the current fetch is still outstanding.
RetryTimerFiresEarly ==
    /\ Top >= 1
    /\ frames[Top].pc \in {"timer", "fetching"}
    /\ frames[Top].retries > 0
    /\ LET f == frames[Top] IN
          /\ frames' = Append([frames EXCEPT ![Top].pc = "chained"],
                              NewFrame(f.url, NextRetries(f.retries)))
          /\ requests' = Append(requests, TokenRequest(f.url))
    /\ UNCHANGED <<attemptLog, logLines, timers>>
    /\ UNCHANGED <<pollVars, aliasVars, setupVars>>

\* The setTimeout callback: fetchTokenWithRetry(url, retries - 1).then(resolve).catch(reject)
RetryTimerFires ==
    /\ Top >= 1
    /\ frames[Top].pc = "timer"
    /\ LET f == frames[Top] IN
          /\ frames' = Append([frames EXCEPT ![Top].pc = "chained"],
                              NewFrame(f.url, NextRetries(f.retries)))
          /\ requests' = Append(requests, TokenRequest(f.url))
    /\ UNCHANGED <<attemptLog, logLines, timers>>
    /\ UNCHANGED <<pollVars, aliasVars, setupVars>>

\* A chain without .catch(reject): only the inner promise's fulfilment is
\* handed to the outer promise.
ChainSettlesNoCatch ==
    /\ \E i \in 1..(Top - 1) :
          /\ frames[i].pc = "chained"
          /\ ~Settled(frames[i])
          /\ frames[i + 1].settled = "resolved"
          /\ frames' = [frames EXCEPT
                          ![i] = [Resolve(frames[i], frames[i + 1].value) EXCEPT !.pc = "done"]]
    /\ UNCHANGED <<attemptLog, logLines, timers, requests>>
    /\ UNCHANGED <<pollVars, aliasVars, setupVars>>

\* The reaction of .then(resolve).catch(reject) to the inner promise settling.
ChainSettles ==
    /\ \E i \in 1..(Top - 1) :
          /\ frames[i].pc = "chained"
          /\ ~Settled(frames[i])
          /\ Settled(frames[i + 1])
          /\ frames' = [frames EXCEPT
                          ![i] = IF frames[i + 1].settled = "resolved"
                                 THEN [Resolve(frames[i], frames[i + 1].value) EXCEPT !.pc = "done"]
                                 ELSE [Reject(frames[i], frames[i + 1].reason) EXCEPT !.pc = "done"]]
    /\ UNCHANGED <<attemptLog, logLines, timers, requests>>
    /\ UNCHANGED <<pollVars, aliasVars, setupVars>>

----------------------------------------------------------------------------
(* fetchTokenInformation                                                   *)

Tokens == {"tokA", "tokB", Undefined}

\* Authorization: `Bearer ${token}`
Bearer(token) == "Bearer " \o token

\* fetch(url, { headers: { Authorization: `Bearer ${token}` } })
InfoRequest(url, token) == [url |-> url, auth |-> Bearer(token), redirect |-> "follow"]

NoInfo ==
    [token |-> Undefined, retries |-> 0, pc |-> "idle", settled |-> "pending",
     value |-> Undefined, reason |-> NoError, child |-> 0]

\* resolve(data.user)
InfoResolvedValue(data) == data.user

\* if (retries === 0)
InfoExhausted(retries) == retries = 0

\* fetchTokenInformation(token, retries): the executor runs synchronously up
\* to await fetch(url, { headers }).
CallFetchTokenInformation(token, retries) ==
    /\ info' = [NoInfo EXCEPT !.token = token, !.retries = retries, !.pc = "fetching"]
    /\ requests' = Append(requests, InfoRequest(UserUrl, token))

\* The catch block of fetchTokenInformation, entered with `error`.
InfoCatch(outcome, error) ==
    /\ attemptLog' = Append(attemptLog, [outcome |-> outcome, error |-> error,
                                          data |-> [token |-> Undefined, user |-> Undefined]])
    /\ logLines' = Append(logLines, info.retries)
    /\ IF InfoExhausted(info.retries)
       THEN /\ info' = [Reject(info, error) EXCEPT !.pc = "done"]
            /\ timers' = timers
       ELSE /\ info' = [info EXCEPT !.pc = "timer"]
            /\ timers' = Append(timers, RetryDelay)

\* A call of fetchTokenInformation with any token and retry budget.
FetchTokenInformation ==
    /\ info.pc = "idle"
    /\ \E token \in Tokens, n \in 0..MaxRetries :
          CallFetchTokenInformation(token, n)
    /\ UNCHANGED <<retryVars, spc, sToken, writes>>
    /\ UNCHANGED <<pollVars, aliasVars>>

\* await fetch(url, { headers }) settles with a response.
InfoFetchResponds ==
    /\ info.pc = "fetching"
    /\ info' = [info EXCEPT !.pc = "parsing"]
    /\ UNCHANGED <<retryVars, requests, spc, sToken, writes>>
    /\ UNCHANGED <<pollVars, aliasVars>>

\* await fetch(url, { headers }) rejects.
InfoFetchFails ==
    /\ info.pc = "fetching"
    /\ InfoCatch("fetchfail", MkError("FetchError", Len(attemptLog) + 1))
    /\ UNCHANGED <<frames, requests, spc, sToken, writes>>
    /\ UNCHANGED <<pollVars, aliasVars>>

\* await res.json() settles with the parsed body; resolve(data.user).
InfoJsonParsed ==
    /\ info.pc = "parsing"
    /\ \E data \in BodiesOf(UserUrl) :
          /\ info' = [Resolve(info, InfoResolvedValue(data)) EXCEPT !.pc = "done"]
          /\ attemptLog' = Append(attemptLog, [outcome |-> "ok", error |-> NoError, data |-> data])
    /\ UNCHANGED <<frames, logLines, timers, requests, spc, sToken, writes>>
    /\ UNCHANGED <<pollVars, aliasVars>>

\* await res.json() rejects.
InfoJsonFails ==
    /\ info.pc = "parsing"
    /\ InfoCatch("jsonfail", MkError("SyntaxError", Len(attemptLog) + 1))
    /\ UNCHANGED <<frames, requests, spc, sToken, writes>>
    /\ UNCHANGED <<pollVars, aliasVars>>

\* The setTimeout callback: fetchTokenWithRetry(url, retries - 1).then(resolve).catch(reject)
InfoTimerFires ==
    /\ info.pc = "timer"
    /\ frames' = Append(frames, NewFrame(UserUrl, NextRetries(info.retries)))
    /\ requests' = Append(requests, TokenRequest(UserUrl))
    /\ info' = [info EXCEPT !.pc = "chained", !.child = Len(frames) + 1]
    /\ UNCHANGED <<attemptLog, logLines, timers, spc, sToken, writes>>
    /\ UNCHANGED <<pollVars, aliasVars>>

\* The reaction of .then(resolve).catch(reject) to the inner promise settling.
InfoChainSettles ==
    /\ info.pc = "chained"
    /\ ~Settled(info)
    /\ Settled(frames[info.child])
    /\ info' = IF frames[info.child].settled = "resolved"
               THEN [Resolve(info, frames[info.child].value) EXCEPT !.pc = "done"]
               ELSE [Reject(info, frames[info.child].reason) EXCEPT !.pc = "done"]
    /\ UNCHANGED <<retryVars, requests, spc, sToken, writes>>
    /\ UNCHANGED <<pollVars, aliasVars>>

----------------------------------------------------------------------------
(* test.before: the setup sequence                                         *)

\* function fetchTokenWithRetry (url, retries = 3)
DefaultRetries == 3

\* function fetchTokenInformation (token, retries = 3)
InfoDefaultRetries == 3

\* path.join(location, `auth.json`), JSON.stringify({ token })
AuthFile(token) == [file |-> "auth.json", token |-> token]

\* const token = await fetchTokenWithRetry(...): the await continues once the
\* promise is fulfilled.
TokenAvailableNoAwait == Top >= 1

TokenAvailable == Top >= 1 /\ frames[1].settled = "resolved"

\* test.before runs: fetchTokenWithRetry(url) with the default retries.
SetupStart ==
    /\ spc = "idle"
    /\ frames = <<>>
    /\ frames' = <<NewFrame(TokenUrl, DefaultRetries)>>
    /\ requests' = Append(requests, TokenRequest(TokenUrl))
    /\ spc' = "awaitToken"
    /\ UNCHANGED <<attemptLog, logLines, timers, info, sToken, writes>>
    /\ UNCHANGED <<pollVars, aliasVars>>

\* await fetchTokenWithRetry(...) is fulfilled: existsSync / createDirectory.
SetupTokenResolved ==
    /\ spc = "awaitToken"
    /\ TokenAvailable
    /\ sToken' = frames[1].value
    /\ spc' = "mkdir"
    /\ UNCHANGED <<retryVars, requests, info, writes>>
    /\ UNCHANGED <<pollVars, aliasVars>>

\* await fetchTokenWithRetry(...) rejects: catch (err) { console.error(err) }.
SetupTokenRejected ==
    /\ spc = "awaitToken"
    /\ Top >= 1
    /\ frames[1].settled = "rejected"
    /\ spc' = "caught"
    /\ UNCHANGED <<retryVars, requests, info, sToken, writes>>
    /\ UNCHANGED <<pollVars, aliasVars>>

\* The directory exists or was created: fs.promises.writeFile(auth.json, { token }).
SetupDirectoryReady ==
    /\ spc = "mkdir"
    /\ writes' = Append(writes, AuthFile(sToken))
    /\ spc' = "writing"
    /\ UNCHANGED <<retryVars, requests, info, sToken>>
    /\ UNCHANGED <<pollVars, aliasVars>>

\* createDirectory or writeFile rejects: catch (err) { console.error(err) }.
SetupFsFails ==
    /\ spc \in {"mkdir", "writing"}
    /\ spc' = "caught"
    /\ UNCHANGED <<retryVars, requests, info, sToken, writes>>
    /\ UNCHANGED <<pollVars, aliasVars>>

\* await writeFile(...) is fulfilled: fetchTokenInformation(token).
SetupWriteDone ==
    /\ spc = "writing"
    /\ CallFetchTokenInformation(sToken, InfoDefaultRetries)
    /\ spc' = "awaitUser"
    /\ UNCHANGED <<retryVars, sToken, writes>>
    /\ UNCHANGED <<pollVars, aliasVars>>

\* await fetchTokenInformation(token) is fulfilled: user.email is read (a
\* TypeError, caught, when user is undefined), then prepareFixtures.
SetupUserResolved ==
    /\ spc = "awaitUser"
    /\ info.settled = "resolved"
    /\ spc' = IF info.value = Undefined THEN "caught" ELSE "done"
    /\ UNCHANGED <<retryVars, requests, info, sToken, writes>>
    /\ UNCHANGED <<pollVars, aliasVars>>

\* await fetchTokenInformation(token) rejects: catch (err) { console.error(err) }.
SetupUserRejected ==
    /\ spc = "awaitUser"
    /\ info.settled = "rejected"
    /\ spc' = "caught"
    /\ UNCHANGED <<retryVars, requests, info, sToken, writes>>
    /\ UNCHANGED <<pollVars, aliasVars>>

----------------------------------------------------------------------------
(* waitForDeployment                                                       *)

Href == "deployment-url"

RedirectTarget == "redirect-target"

\* An interval that grows with the number of sleeps already made.
PollIntervalGrowing == 2000 * (Len(sleeps) + 1)

PollInterval == 2000

\* The statuses the deployment URL may answer a probe with.
Statuses == {200, 204, 302, 404, 503}

IsRedirect(status) == status \in 300..399

\* fetch(href, { redirect: 'manual' })
ProbeRequestFollow(href) == [url |-> href, auth |-> NoAuth, redirect |-> "follow"]

ProbeRequest(href) == [url |-> href, auth |-> NoAuth, redirect |-> "manual"]

\* if (response.status === '200'): a number never equals a string.
IsReadyString(status) == FALSE

\* if (response.status === 200)
IsReadyAnyOk(status) == status \in 200..299

IsReady(status) == status = 200

\* while (true)
LoopContinuesBounded(probes) == probes < 2

LoopContinues(probes) == TRUE

\* What fetch hands back for a request the server answers with `raw`: a
\* redirect is followed to its target (answering `final`) unless the request
\* was made with redirect 'manual', which yields the 3xx response itself.
Follows(req, raw) == req.redirect = "follow" /\ IsRedirect(raw)

\* The call: the loop body runs synchronously up to await fetch(href, ...).
WaitForDeployment ==
    /\ wpc = "idle"
    /\ wpc' = "probing"
    /\ requests' = Append(requests, ProbeRequest(Href))
    /\ UNCHANGED <<probeLog, sleeps, wError>>
    /\ UNCHANGED <<retryVars, aliasVars, setupVars, serverReady>>

\* The loop body after await fetch(...) settled with the response to a request
\* the server answered with `raw` (and the redirect target with `final`):
\* break on 200, else await sleep(2000).
ProbeAnswered(raw, final) ==
    LET req == requests[Len(requests)]
        status == IF Follows(req, raw) THEN final ELSE raw
    IN
    /\ requests' = IF Follows(req, raw)
                   THEN Append(requests, [req EXCEPT !.url = RedirectTarget])
                   ELSE requests
    /\ probeLog' = Append(probeLog, [kind |-> "response", status |-> status])
    /\ IF IsReady(status) \/ ~LoopContinues(Len(probeLog) + 1)
       THEN /\ wpc' = "returned"
            /\ sleeps' = sleeps
       ELSE /\ wpc' = "sleeping"
            /\ sleeps' = Append(sleeps, PollInterval)

\* await fetch(...) settles with a response, whatever the endpoint answers.
ProbeResponds ==
    /\ wpc = "probing"
    /\ \E raw \in Statuses, final \in {s \in Statuses : ~IsRedirect(s)} :
          ProbeAnswered(raw, final)
    /\ UNCHANGED wError
    /\ UNCHANGED <<retryVars, aliasVars, setupVars, serverReady>>

\* What the endpoint answers a probe with: 200 once the deployment is ready.
ServerAnswers == IF serverReady THEN {200} ELSE Statuses

\* await fetch(...) settles with the response of an endpoint that answers
\* every probe, and with 200 once it is ready.
ProbeRespondsServer ==
    /\ wpc = "probing"
    /\ \E raw \in ServerAnswers, final \in {s \in Statuses : ~IsRedirect(s)} :
          ProbeAnswered(raw, final)
    /\ UNCHANGED wError
    /\ UNCHANGED <<retryVars, aliasVars, setupVars, serverReady>>

\* The deployment becomes routable: from now on the endpoint answers 200.
ServerBecomesReady ==
    /\ ~serverReady
    /\ serverReady' = TRUE
    /\ UNCHANGED <<wpc, probeLog, sleeps, wError, requests>>
    /\ UNCHANGED <<retryVars, aliasVars, setupVars>>

\* await fetch(...) rejects (connection failure): nothing in the loop catches
\* it, so the async function's promise rejects with the fetch error.
ProbeFails ==
    /\ wpc = "probing"
    /\ probeLog' = Append(probeLog, [kind |-> "failure", status |-> 0])
    /\ wError' = MkError("FetchError", Len(probeLog) + 1)
    /\ wpc' = "thrown"
    /\ UNCHANGED <<sleeps, requests>>
    /\ UNCHANGED <<retryVars, aliasVars, setupVars, serverReady>>

\* await sleep(2000) settles: the next loop iteration issues the next probe.
SleepElapses ==
    /\ wpc = "sleeping"
    /\ Len(probeLog) < MaxProbes
    /\ wpc' = "probing"
    /\ requests' = Append(requests, ProbeRequest(Href))
    /\ UNCHANGED <<probeLog, sleeps, wError>>
    /\ UNCHANGED <<retryVars, aliasVars, setupVars, serverReady>>

----------------------------------------------------------------------------
(* getDeploymentForAlias                                                   *)

ArgValues == {"dep-123", "foo.example.com"}

\* The positional arguments handed over by the command layer.
ArgLists == UNION { [1..n -> ArgValues] : n \in 0..MaxArgs }

Users == {"alice", "bob"}

Contexts == {"ctxA", "ctxB"}

\* localConfig: its name literal, or no name.
Configs == {"my-app", "no-name"}

AppNames == {"my-app", "dir-name"}

Deployments == {"dpl_1", "dpl_2"}

\* The empty result of the most-recent-deployment lookup.
Empty == "null"

NoArg == "-"

\* fetchDeploymentByIdOrHost(client, contextName, deploymentId)
CallFetchById(contextName, deploymentId) ==
    [fn |-> "fetchDeploymentByIdOrHost", contextName |-> contextName,
     id |-> deploymentId, appName |-> NoArg, user |-> NoArg, localConfig |-> NoArg]

\* getAppName(output, localConfig, localConfigPath)
CallGetAppName(localConfig) ==
    [fn |-> "getAppName", contextName |-> NoArg,
     id |-> NoArg, appName |-> NoArg, user |-> NoArg, localConfig |-> localConfig]

\* getAppLastDeployment(output, client, appName, user, contextName)
CallGetAppLastDeployment(name, user, contextName) ==
    [fn |-> "getAppLastDeployment", contextName |-> contextName,
     id |-> NoArg, appName |-> name, user |-> user, localConfig |-> NoArg]

\* if (args.length >= 2)
IsExplicitAtLeastTwo(args) == Len(args) >= 2

\* if (args.length === 2)
IsExplicitAtLeastOne(args) == Len(args) >= 1

IsExplicit(args) == Len(args) = 2

\* const [deploymentId] = args
DeploymentIdSecond(args) == args[2]

DeploymentId(args) == args[1]

\* cancelWait()
CancelWait == cancelCount' = cancelCount + 1

\* The call: output.warn, wait(...), then the first collaborator call of the
\* selected path, up to its await.
GetDeploymentForAlias ==
    /\ apc = "idle"
    /\ \E args \in ArgLists, user \in Users, contextName \in Contexts, localConfig \in Configs :
          /\ aIn' = [args |-> args, user |-> user, contextName |-> contextName,
                     localConfig |-> localConfig]
          /\ IF IsExplicit(args)
             THEN /\ calls' = Append(calls, CallFetchById(contextName, DeploymentId(args)))
                  /\ apc' = "awaitFetchById"
             ELSE /\ calls' = Append(calls, CallGetAppName(localConfig))
                  /\ apc' = "awaitAppName"
    /\ warnings' = warnings + 1
    /\ waitStarted' = waitStarted + 1
    /\ UNCHANGED <<cancelCount, appName, deployment, aResult, aError>>
    /\ UNCHANGED <<retryVars, pollVars, setupVars, requests>>

\* A resolver that returns the identifier it was given instead of the
\* deployment the lookup resolved with.
FetchByIdReturnsId ==
    /\ apc = "awaitFetchById"
    /\ \E d \in Deployments :
          /\ deployment' = d
          /\ aResult' = DeploymentId(aIn.args)
    /\ CancelWait
    /\ apc' = "returned"
    /\ UNCHANGED <<aIn, calls, warnings, waitStarted, appName, aError>>
    /\ UNCHANGED <<retryVars, pollVars, setupVars, requests>>

\* await fetchDeploymentByIdOrHost(...) settles with a deployment.
FetchByIdReturns ==
    /\ apc = "awaitFetchById"
    /\ \E d \in Deployments :
          /\ deployment' = d
          /\ aResult' = d
    /\ CancelWait
    /\ apc' = "returned"
    /\ UNCHANGED <<aIn, calls, warnings, waitStarted, appName, aError>>
    /\ UNCHANGED <<retryVars, pollVars, setupVars, requests>>

\* A resolver that answers a failed explicit lookup by falling back to the
\* config-derived path.
FetchByIdThrowsFallsBack ==
    /\ apc = "awaitFetchById"
    /\ calls' = Append(calls, CallGetAppName(aIn.localConfig))
    /\ apc' = "awaitAppName"
    /\ UNCHANGED <<aIn, warnings, waitStarted, cancelCount, appName, deployment, aResult, aError>>
    /\ UNCHANGED <<retryVars, pollVars, setupVars, requests>>

\* await fetchDeploymentByIdOrHost(...) rejects: the error leaves the function.
FetchByIdThrows ==
    /\ apc = "awaitFetchById"
    /\ aError' = MkError("LookupFailed", Len(calls))
    /\ apc' = "thrown"
    /\ UNCHANGED <<aIn, calls, warnings, waitStarted, cancelCount, appName, deployment, aResult>>
    /\ UNCHANGED <<retryVars, pollVars, setupVars, requests>>

\* await getAppName(...) settles: getAppLastDeployment is called with its result.
GetAppNameReturns ==
    /\ apc = "awaitAppName"
    /\ \E name \in AppNames :
          /\ appName' = name
          /\ calls' = Append(calls, CallGetAppLastDeployment(name, aIn.user, aIn.contextName))
    /\ apc' = "awaitLastDeployment"
    /\ UNCHANGED <<aIn, warnings, waitStarted, cancelCount, deployment, aResult, aError>>
    /\ UNCHANGED <<retryVars, pollVars, setupVars, requests>>

\* await getAppName(...) rejects: the error leaves the function.
GetAppNameThrows ==
    /\ apc = "awaitAppName"
    /\ aError' = MkError("AppNameFailed", Len(calls))
    /\ apc' = "thrown"
    /\ UNCHANGED <<aIn, calls, warnings, waitStarted, cancelCount, appName, deployment, aResult>>
    /\ UNCHANGED <<retryVars, pollVars, setupVars, requests>>

\* await getAppLastDeployment(...) settles with a deployment or with nothing.
GetAppLastDeploymentReturns ==
    /\ apc = "awaitLastDeployment"
    /\ \E d \in Deployments \cup {Empty} :
          /\ deployment' = d
          /\ aResult' = d
    /\ CancelWait
    /\ apc' = "returned"
    /\ UNCHANGED <<aIn, calls, warnings, waitStarted, appName, aError>>
    /\ UNCHANGED <<retryVars, pollVars, setupVars, requests>>

\* await getAppLastDeployment(...) rejects: the error leaves the function.
GetAppLastDeploymentThrows ==
    /\ apc = "awaitLastDeployment"
    /\ aError' = MkError("LookupFailed", Len(calls))
    /\ apc' = "thrown"
    /\ UNCHANGED <<aIn, calls, warnings, waitStarted, cancelCount, appName, deployment, aResult>>
    /\ UNCHANGED <<retryVars, pollVars, setupVars, requests>>

----------------------------------------------------------------------------
(* Initial states and specifications *)

InitRetry ==
    /\ frames = <<>>
    /\ attemptLog = <<>>
    /\ logLines = <<>>
    /\ timers = <<>>

InitPoll ==
    /\ wpc = "idle"
    /\ probeLog = <<>>
    /\ sleeps = <<>>
    /\ wError = NoError
    /\ serverReady = FALSE

InitSetup ==
    /\ info = NoInfo
    /\ spc = "idle"
    /\ sToken = Undefined
    /\ writes = <<>>

InitAlias ==
    /\ apc = "idle"
    /\ aIn = [args |-> <<>>, user |-> "", contextName |-> "", localConfig |-> ""]
    /\ appName = Undefined
    /\ deployment = Undefined
    /\ calls = <<>>
    /\ warnings = 0
    /\ waitStarted = 0
    /\ cancelCount = 0
    /\ aResult = Undefined
    /\ aError = NoError

Init ==
    /\ InitRetry
    /\ InitPoll
    /\ InitSetup
    /\ InitAlias
    /\ requests = <<>>

NextRetry ==
    \/ FetchTokenWithRetry
    \/ TokenFetchResponds
    \/ TokenFetchFails
    \/ TokenJsonParsed
    \/ TokenJsonFails
    \/ RetryTimerFires
    \/ ChainSettles

SpecRetry == Init /\ [][NextRetry]_vars

\* fetchTokenWithRetry when every single attempt terminates: each awaited fetch
\* and body read settles one way or the other, an armed timer expires, and the
\* event loop runs the reaction of a settled promise.
SpecRetryLive ==
    /\ Init
    /\ [][NextRetry]_vars
    /\ WF_vars(TokenFetchResponds \/ TokenFetchFails)
    /\ WF_vars(TokenJsonParsed \/ TokenJsonFails)
    /\ WF_vars(RetryTimerFires)
    /\ WF_vars(ChainSettles)

NextInfo ==
    \/ FetchTokenInformation
    \/ InfoFetchResponds
    \/ InfoFetchFails
    \/ InfoJsonParsed
    \/ InfoJsonFails
    \/ InfoTimerFires
    \/ InfoChainSettles
    \/ TokenFetchResponds
    \/ TokenFetchFails
    \/ TokenJsonParsed
    \/ TokenJsonFails
    \/ RetryTimerFires
    \/ ChainSettles

SpecInfo == Init /\ [][NextInfo]_vars

NextSetup ==
    \/ SetupStart
    \/ SetupTokenResolved
    \/ SetupTokenRejected
    \/ SetupDirectoryReady
    \/ SetupFsFails
    \/ SetupWriteDone
    \/ SetupUserResolved
    \/ SetupUserRejected
    \/ TokenFetchResponds
    \/ TokenFetchFails
    \/ TokenJsonParsed
    \/ TokenJsonFails
    \/ RetryTimerFires
    \/ ChainSettles
    \/ InfoFetchResponds
    \/ InfoFetchFails
    \/ InfoJsonParsed
    \/ InfoJsonFails
    \/ InfoTimerFires
    \/ InfoChainSettles

SpecSetup == Init /\ [][NextSetup]_vars

NextPoll ==
    \/ WaitForDeployment
    \/ ProbeResponds
    \/ ProbeFails
    \/ SleepElapses

SpecPoll == Init /\ [][NextPoll]_vars

\* The readiness wait against an endpoint that answers every probe. The event
\* loop runs a continuation whose promise has settled: an elapsed sleep resumes
\* the loop, and an answered fetch resumes it.
NextPollLive ==
    \/ WaitForDeployment
    \/ ProbeRespondsServer
    \/ SleepElapses
    \/ ServerBecomesReady

SpecPollLive ==
    /\ Init
    /\ [][NextPollLive]_vars
    /\ WF_vars(SleepElapses)
    /\ WF_vars(ProbeRespondsServer)

\* One thread of control: a run is either the setup sequence (test.before,
\* which covers fetchTokenWithRetry and fetchTokenInformation) or one
\* readiness wait; the setup hook has finished before any test body runs.
NextSequential ==
    \/ (wpc = "idle" /\ SetupStart)
    \/ (wpc = "idle" /\ SetupTokenResolved)
    \/ (wpc = "idle" /\ SetupTokenRejected)
    \/ (wpc = "idle" /\ SetupDirectoryReady)
    \/ (wpc = "idle" /\ SetupFsFails)
    \/ (wpc = "idle" /\ SetupWriteDone)
    \/ (wpc = "idle" /\ SetupUserResolved)
    \/ (wpc = "idle" /\ SetupUserRejected)
    \/ (wpc = "idle" /\ TokenFetchResponds)
    \/ (wpc = "idle" /\ TokenFetchFails)
    \/ (wpc = "idle" /\ TokenJsonParsed)
    \/ (wpc = "idle" /\ TokenJsonFails)
    \/ (wpc = "idle" /\ RetryTimerFires)
    \/ (wpc = "idle" /\ ChainSettles)
    \/ (wpc = "idle" /\ InfoFetchResponds)
    \/ (wpc = "idle" /\ InfoFetchFails)
    \/ (wpc = "idle" /\ InfoJsonParsed)
    \/ (wpc = "idle" /\ InfoJsonFails)
    \/ (wpc = "idle" /\ InfoTimerFires)
    \/ (wpc = "idle" /\ InfoChainSettles)
    \/ (spc = "idle" /\ WaitForDeployment)
    \/ (spc = "idle" /\ ProbeResponds)
    \/ (spc = "idle" /\ ProbeFails)
    \/ (spc = "idle" /\ SleepElapses)

SpecSequential == Init /\ [][NextSequential]_vars

NextAlias ==
    \/ GetDeploymentForAlias
    \/ FetchByIdReturns
    \/ FetchByIdThrows
    \/ GetAppNameReturns
    \/ GetAppNameThrows
    \/ GetAppLastDeploymentReturns
    \/ GetAppLastDeploymentThrows

SpecAlias == Init /\ [][NextAlias]_vars

----------------------------------------------------------------------------
(* Claims about fetchTokenWithRetry                                        *)

Budget == frames[1].retries

Last == Len(attemptLog)

AllFailed == \A k \in 1..Last : attemptLog[k].outcome # "ok"

\* C1: with retry budget n, when every attempt fails the call performs exactly
\* n+1 fetches and only then rejects: no invocation's promise is rejected after
\* fewer than n+1 failed attempts, and an (n+2)-th fetch is never issued.
C1_ExactlyBudgetPlusOneAttempts ==
    Top >= 1 =>
        /\ Len(requests) <= Budget + 1
        /\ Last <= Len(requests)
        /\ \A i \in 1..Top :
              frames[i].settled = "rejected" =>
                  /\ AllFailed
                  /\ Last = Budget + 1
                  /\ Len(requests) = Budget + 1
        /\ (AllFailed /\ ~ENABLED NextRetry) =>
              /\ frames[1].settled = "rejected"
              /\ Len(requests) = Budget + 1

C1_Witness ==
    /\ Top >= 1
    /\ Budget >= 2
    /\ frames[1].settled = "rejected"
    /\ Len(requests) = Budget + 1

\* C2: when attempt k is the first to succeed, the call resolves with the token
\* of attempt k's body, the earlier failures never reach the caller, and no
\* attempt k+1 is started.
C2_FirstSuccessResolves ==
    \A k \in 1..Last :
        attemptLog[k].outcome = "ok" =>
            /\ k = Last
            /\ k <= Budget + 1
            /\ Top = k
            /\ Len(requests) = k
            /\ \A i \in 1..Top : frames[i].pc # "timer"
            /\ frames[k].settled = "resolved"
            /\ \A i \in 1..Top :
                  Settled(frames[i]) =>
                      /\ frames[i].settled = "resolved"
                      /\ frames[i].value = attemptLog[k].data.token
            /\ (~ENABLED NextRetry) => frames[1].settled = "resolved"

C2_Witness ==
    /\ Last >= 2
    /\ attemptLog[Last].outcome = "ok"
    /\ attemptLog[Last].data.token = "tokB"
    /\ frames[1].settled = "resolved"
    /\ frames[1].value = "tokB"

----------------------------------------------------------------------------
(* Claims about waitForDeployment                                          *)

Probes == Len(probeLog)

Is200(i) == probeLog[i].kind = "response" /\ probeLog[i].status = 200

\* C4: waitForDeployment returns only after a probe observed status exactly
\* 200: when the first 200 is at position m it returns after exactly m probes,
\* never earlier and with no further probe, and while no 200 has been seen it
\* never gives up (after a non-200 response it is always about to probe again).
C4_ReturnsOnlyOnFirst200 ==
    /\ wpc = "returned" => (Probes >= 1 /\ Is200(Probes))
    /\ \A i \in 1..Probes :
          Is200(i) => /\ i = Probes
                      /\ wpc = "returned"
                      /\ Len(requests) = i
                      /\ Len(sleeps) = i - 1
    /\ (Probes >= 1 /\ probeLog[Probes].kind = "response" /\ ~Is200(Probes)) =>
          /\ wpc \in {"sleeping", "probing"}
          /\ (wpc = "sleeping" /\ Probes < MaxProbes) => ENABLED SleepElapses

C4_Witness ==
    /\ wpc = "returned"
    /\ Probes = 3
    /\ probeLog[1].status = 503
    /\ probeLog[2].status = 503
    /\ probeLog[3].status = 200

\* C5 as stated: a probe that ends in a connection failure is followed by a
\* sleep and another probe, and the failure never reaches the caller.
C5_ConnectionFailureRetried ==
    /\ wpc # "thrown"
    /\ wError = NoError
    /\ \A i \in 1..Probes : probeLog[i].kind = "failure" => Len(sleeps) >= i

\* C6: every probe is issued with redirect 'manual', the redirect target is
\* never requested, and a 3xx response is not-ready: the poller does not
\* return on it but sleeps and goes on to the next poll iteration.
C6_RedirectNotFollowedNotReady ==
    /\ wpc # "idle" => Len(requests) >= 1
    /\ \A r \in 1..Len(requests) :
          /\ requests[r].redirect = "manual"
          /\ requests[r].url = Href
    /\ \A i \in 1..Probes :
          (probeLog[i].kind = "response" /\ IsRedirect(probeLog[i].status)) =>
              /\ Len(sleeps) >= i
              /\ sleeps[i] = PollInterval
              /\ (i = Probes => wpc \in {"sleeping", "probing"})
              /\ (i = Probes /\ wpc = "probing" => Len(requests) = i + 1)
              /\ (i = Probes /\ wpc = "sleeping" /\ Probes < MaxProbes => ENABLED SleepElapses)

C6_Witness ==
    /\ Probes >= 2
    /\ probeLog[1].kind = "response"
    /\ probeLog[1].status = 302
    /\ Len(requests) >= 2

----------------------------------------------------------------------------
(* Claims about getDeploymentForAlias                                      *)

Exited == apc \in {"returned", "thrown"}

CalledFns == { calls[i].fn : i \in 1..Len(calls) }

\* C7 as stated: the working indicator started by an invocation is cancelled
\* exactly once on every exit path, returns and thrown errors alike.
C7_CancelledOnceOnEveryExit ==
    Exited => (waitStarted = 1 /\ cancelCount = 1)

\* C8: called with exactly two positional arguments, the resolver looks the
\* first argument up through fetchDeploymentByIdOrHost and never calls
\* getAppName or getAppLastDeployment, whatever localConfig holds.
C8_TwoArgsExplicitLookupOnly ==
    (apc # "idle" /\ Len(aIn.args) = 2) =>
        /\ calls = <<CallFetchById(aIn.contextName, aIn.args[1])>>
        /\ "getAppName" \notin CalledFns
        /\ "getAppLastDeployment" \notin CalledFns
        /\ appName = Undefined

C8_Witness ==
    /\ apc = "returned"
    /\ aIn.args = <<"dep-123", "foo.example.com">>
    /\ aIn.localConfig = "my-app"
    /\ calls[1].id = "dep-123"

\* C9: called with zero or one positional argument, the resolver first calls
\* getAppName and then, with the name it returned, getAppLastDeployment for
\* the given user and contextName; it never calls fetchDeploymentByIdOrHost.
C9_FewerArgsConfigDerived ==
    (apc # "idle" /\ Len(aIn.args) \in {0, 1}) =>
        /\ Len(calls) \in {1, 2}
        /\ calls[1] = CallGetAppName(aIn.localConfig)
        /\ Len(calls) = 2 =>
              /\ appName \in AppNames
              /\ calls[2] = CallGetAppLastDeployment(appName, aIn.user, aIn.contextName)
        /\ Len(calls) = 1 => apc \in {"awaitAppName", "thrown"}
        /\ apc = "returned" => Len(calls) = 2
        /\ "fetchDeploymentByIdOrHost" \notin CalledFns

C9_Witness ==
    /\ apc = "returned"
    /\ Len(aIn.args) = 1
    /\ aIn.user = "bob"
    /\ aIn.contextName = "ctxB"
    /\ Len(calls) = 2
    /\ calls[2].appName = "dir-name"

\* C10 as stated: on the config-derived path, when getAppLastDeployment
\* returns empty the resolver fails with NoDeploymentFound and does not return
\* the empty result to its caller.
C10_EmptyLookupFails ==
    (~IsExplicit(aIn.args) /\ deployment = Empty) =>
        /\ apc = "thrown"
        /\ aError.name = "NoDeploymentFound"
        /\ aResult = Undefined


CallCount(fn) == Cardinality({ i \in 1..Len(calls) : calls[i].fn = fn })

\* C11: a failed remote lookup is propagated to the caller and never retried:
\* in one invocation fetchDeploymentByIdOrHost and getAppLastDeployment are each
\* called at most once, and after a failed lookup no further call is issued.
C11_LookupFailureNotRetried ==
    /\ CallCount("fetchDeploymentByIdOrHost") <= 1
    /\ CallCount("getAppLastDeployment") <= 1
    /\ CallCount("fetchDeploymentByIdOrHost") + CallCount("getAppLastDeployment") <= 1
    /\ aError.name = "LookupFailed" =>
          /\ apc = "thrown"
          /\ aResult = Undefined
          /\ aError.id = Len(calls)
          /\ calls[Len(calls)].fn \in {"fetchDeploymentByIdOrHost", "getAppLastDeployment"}
    /\ apc = "thrown" => aError # NoError

C11_Witness ==
    /\ apc = "thrown"
    /\ aError.name = "LookupFailed"
    /\ calls[Len(calls)].fn = "fetchDeploymentByIdOrHost"


----------------------------------------------------------------------------
(* Claims about fetchTokenInformation and the setup sequence               *)

\* C12 as stated: every request fetchTokenInformation causes to be sent to the
\* user-info URL, on the first attempt and on every retry, carries the header
\* Authorization: Bearer <token> for the token it was given.
C12_EveryRequestCarriesBearer ==
    \A r \in 1..Len(requests) :
        requests[r].url = UserUrl => requests[r].auth = Bearer(info.token)

\* C13 as stated: whichever attempt of fetchTokenInformation succeeds, the
\* value it resolves with is the user field of that successful response.
C13_ResolvesWithUserRecord ==
    info.settled = "resolved" =>
        /\ attemptLog[Last].outcome = "ok"
        /\ info.value = attemptLog[Last].data.user


UserInfoRequested == \E r \in 1..Len(requests) : requests[r].url = UserUrl

\* C15: in the setup sequence auth.json is written and the user-info request
\* is issued only after fetchTokenWithRetry has resolved with a token (the
\* token written and sent); if acquisition is exhausted, neither happens.
C15_WriteAndUserInfoAfterToken ==
    /\ (writes # <<>> \/ UserInfoRequested \/ info.pc # "idle") =>
          /\ Top >= 1
          /\ frames[1].settled = "resolved"
          /\ sToken = frames[1].value
          /\ writes = <<AuthFile(frames[1].value)>>
    /\ UserInfoRequested => info.token = frames[1].value
    /\ (Top >= 1 /\ frames[1].settled = "rejected") =>
          /\ writes = <<>>
          /\ ~UserInfoRequested
          /\ info.pc = "idle"
          /\ spc \in {"awaitToken", "caught"}

C15_Witness ==
    /\ spc = "awaitUser"
    /\ Top >= 2
    /\ frames[1].settled = "resolved"
    /\ frames[1].value = "tokB"
    /\ writes = <<AuthFile("tokB")>>
    /\ UserInfoRequested


----------------------------------------------------------------------------
(* Claims about the sequencing of remote calls                             *)

\* The requests handed to fetch whose promise (response and body) is still
\* outstanding.
InFlight ==
    Cardinality({ i \in 1..Top : frames[i].pc \in {"fetching", "parsing"} })
    + (IF info.pc \in {"fetching", "parsing"} THEN 1 ELSE 0)
    + (IF wpc = "probing" THEN 1 ELSE 0)

\* C14: remote calls are sequential: never two requests in flight at once;
\* in fetchTokenWithRetry and fetchTokenInformation attempt i+1 is started only
\* after attempt i has failed, and in waitForDeployment probe i+1 is started
\* only after probe i has completed.
C14_RemoteCallsSequential ==
    /\ InFlight <= 1
    /\ wpc = "idle" =>
          \A k \in 2..Len(requests) :
              /\ Len(attemptLog) >= k - 1
              /\ requests[k].url = requests[k - 1].url => attemptLog[k - 1].outcome # "ok"
    /\ wpc # "idle" =>
          /\ Len(requests) <= Probes + 1
          /\ wpc = "probing" <=> Len(requests) = Probes + 1

C14_Witness ==
    /\ Len(requests) >= 4
    /\ UserInfoRequested
    /\ requests[Len(requests)].auth = NoAuth
    /\ InFlight = 1



----------------------------------------------------------------------------
(* Claims about delays, logging and the shape of the retry                 *)

Failures == Cardinality({ k \in 1..Last : attemptLog[k].outcome # "ok" })

\* C16: the wait before a retry is the same fixed 500 ms for every attempt
\* number: the first attempt starts with no timer, each retry is started by
\* the expiry of one 500 ms timer armed at the preceding failure, and no timer
\* is armed after the final failed attempt before the rejection.
C16_FixedDelayBeforeEachRetry ==
    Top >= 1 =>
        /\ \A i \in 1..Len(timers) : timers[i] = 500
        /\ Len(timers) <= Failures
        /\ Len(timers) <= Budget
        /\ frames[Top].pc = "timer" => (Len(timers) = Len(requests) /\ Failures = Len(requests))
        /\ frames[Top].pc # "timer" => Len(timers) = Len(requests) - 1
        /\ frames[Top].settled = "rejected" =>
              (Failures = Budget + 1 /\ Len(timers) = Failures - 1)

C16_Witness ==
    /\ Top = 3
    /\ timers = <<500, 500>>
    /\ frames[Top].settled = "rejected"

\* C17: exactly one sleep of 2000 ms separates two consecutive probes: the
\* first probe has no sleep before it, a non-200 response is always followed
\* by a sleep before the next probe, and no sleep follows the probe that
\* returned 200 (sleeps = probes - 1).
C17_OneSleepBetweenProbes ==
    /\ \A i \in 1..Len(sleeps) : sleeps[i] = 2000
    /\ wpc = "idle" => (sleeps = <<>> /\ requests = <<>>)
    /\ wpc = "probing" => (Len(sleeps) = Len(requests) - 1 /\ Probes = Len(sleeps))
    /\ wpc = "sleeping" => (Len(sleeps) = Len(requests) /\ Probes = Len(sleeps))
    /\ wpc \in {"returned", "thrown"} =>
          (Len(sleeps) = Probes - 1 /\ Len(requests) = Probes)
    /\ \A i \in 1..Probes :
          (probeLog[i].kind = "response" /\ probeLog[i].status # 200) => Len(sleeps) >= i

C17_Witness ==
    /\ wpc = "returned"
    /\ Probes = 3
    /\ sleeps = <<2000, 2000>>

\* C19: every failed attempt is logged exactly once with the retries remaining
\* at that moment, the final failure included: the lines read n, n-1, ... in
\* order (n+1 lines ending in 0 when all attempts fail), and a successful
\* attempt logs nothing.
C19_EveryFailureLoggedOnce ==
    Top >= 1 =>
        /\ Len(logLines) = Failures
        /\ \A i \in 1..Len(logLines) : logLines[i] = Budget - (i - 1)
        /\ frames[1].settled = "rejected" =>
              (Len(logLines) = Budget + 1 /\ logLines[Len(logLines)] = 0)

C19_Witness ==
    /\ Top >= 1
    /\ frames[1].settled = "rejected"
    /\ logLines = <<2, 1, 0>>

Pending == Cardinality({ i \in 1..Top : ~Settled(frames[i]) })

Active == Cardinality({ i \in 1..Top : frames[i].pc \in {"fetching", "parsing", "timer"} })

\* C20 as stated: the retry is iterative with constant depth: at every moment
\* at most one acquisition promise is pending, however many retries were made.
C20_AtMostOnePending ==
    Pending <= 1

\* C20 as amended: the retry is a recursive self-reinvocation: every retry
\* creates a new invocation whose promise the previous one waits on, so while
\* the innermost invocation is unsettled the number of pending acquisition
\* promises equals the number of attempts started (up to n+1); only the
\* innermost invocation is ever active.
C20_PendingGrowsWithRetries ==
    Top >= 1 =>
        /\ Top = Len(requests)
        /\ Top <= Budget + 1
        /\ \A i \in 1..Top : frames[i].retries = Budget - (i - 1)
        /\ \A i \in 1..(Top - 1) : frames[i].pc \in {"chained", "done"}
        /\ ~Settled(frames[Top]) => Pending = Top
        /\ Active <= 1

C20_Witness ==
    /\ Top = 3
    /\ Pending = 3
    /\ frames[3].pc = "fetching"


----------------------------------------------------------------------------
(* Liveness of waitForDeployment                                           *)

Seen200 == \E i \in 1..Probes : Is200(i)

\* C18: if the endpoint answers every probe and from some point on answers
\* 200, waitForDeployment eventually returns (here: once the endpoint is ready
\* while the poller is still within MaxProbes probes); and as long as the
\* endpoint has not answered 200, waitForDeployment has not returned.
C18_EventuallyReturnsOnceReady ==
    /\ (serverReady /\ wpc \in {"probing", "sleeping"} /\ Probes < MaxProbes)
          ~> (wpc = "returned")
    /\ [](~Seen200 => wpc # "returned")
    /\ [](wpc \in {"probing", "sleeping"} => ~Seen200)

C18_Witness ==
    /\ serverReady
    /\ wpc = "returned"
    /\ Probes >= 3
    /\ probeLog[1].status = 503
    /\ probeLog[2].status = 302


----------------------------------------------------------------------------
(* Termination and counter invariants of fetchTokenWithRetry               *)

\* C21: for every budget n and every pattern of per-attempt successes and
\* failures, provided each attempt terminates, the call eventually settles, and
\* its promise is settled exactly once: resolved or rejected, never both, and
\* once settled its state, value and reason never change.
C21_SettlesExactlyOnce ==
    /\ (Top >= 1) ~> (Top >= 1 /\ Settled(frames[1]))
    /\ [](\A i \in 1..Top :
             /\ frames[i].settled = "resolved" => frames[i].reason = NoError
             /\ frames[i].settled = "rejected" =>
                   (frames[i].value = Undefined /\ frames[i].reason # NoError)
             /\ frames[i].settled = "pending" =>
                   (frames[i].value = Undefined /\ frames[i].reason = NoError))
    /\ [][\A i \in 1..Top : Settled(frames[i]) => frames'[i] = frames[i]]_vars

C21_Witness ==
    /\ Top = 3
    /\ frames[1].settled = "resolved"
    /\ frames[1].value = "tokA"
    /\ attemptLog[1].outcome = "jsonfail"


\* C22: started with n >= 0, the retries-remaining counter stays within 0..n,
\* goes down by exactly 1 from one invocation to the next and never changes
\* otherwise, and an attempt with remaining r is started only after the attempt
\* with remaining r+1 has failed.
C22_RetriesCounterInvariant ==
    /\ [](Top >= 1 =>
             /\ Budget \in 0..MaxRetries
             /\ \A i \in 1..Top : frames[i].retries \in 0..Budget
             /\ \A i \in 2..Top :
                   /\ frames[i].retries = frames[i - 1].retries - 1
                   /\ Len(attemptLog) >= i - 1
                   /\ attemptLog[i - 1].outcome # "ok"
                   /\ logLines[i - 1] = frames[i].retries + 1)
    /\ [][\A i \in 1..Top : frames'[i].retries = frames[i].retries]_vars

C22_Witness ==
    /\ Top = 3
    /\ frames[1].retries = 3
    /\ frames[2].retries = 2
    /\ frames[3].retries = 1
    /\ frames[3].pc = "timer"


----------------------------------------------------------------------------
(* Path selection and forwarding in getDeploymentForAlias                  *)

\* The values handed to collaborators in call c.
CallValues(c) == {c.contextName, c.id, c.appName, c.user, c.localConfig}

ArgElements == { aIn.args[j] : j \in 1..Len(aIn.args) }

\* C23: the path depends only on whether the number of positional arguments
\* is 2: for every other length, 3 or more included, the config-derived path
\* is taken and no element of args reaches any lookup.
C23_PathDependsOnlyOnLengthTwo ==
    apc # "idle" =>
        /\ Len(aIn.args) = 2 <=> calls[1].fn = "fetchDeploymentByIdOrHost"
        /\ Len(aIn.args) # 2 <=> calls[1].fn = "getAppName"
        /\ Len(aIn.args) # 2 =>
              /\ calls[1] = CallGetAppName(aIn.localConfig)
              /\ Len(calls) <= 2
              /\ Len(calls) = 2 =>
                    calls[2] = CallGetAppLastDeployment(appName, aIn.user, aIn.contextName)
              /\ \A i \in 1..Len(calls) : CallValues(calls[i]) \cap ArgElements = {}

C23_Witness ==
    /\ apc = "returned"
    /\ Len(aIn.args) = 3
    /\ Len(calls) = 2
    /\ aResult = "dpl_2"

\* C24: on the explicit path the first argument is forwarded unchanged with
\* contextName to the id-or-host lookup, the second argument (the alias name)
\* is passed to no collaborator, and on both paths the value returned to the
\* caller is exactly the value the lookup collaborator returned.
C24_ForwardsFirstArgReturnsLookupValue ==
    /\ (apc # "idle" /\ Len(aIn.args) = 2) =>
          /\ calls = <<CallFetchById(aIn.contextName, aIn.args[1])>>
          /\ aIn.args[2] # aIn.args[1] =>
                \A i \in 1..Len(calls) : aIn.args[2] \notin CallValues(calls[i])
    /\ apc = "returned" =>
          /\ deployment # Undefined
          /\ aResult = deployment
    /\ apc # "returned" => aResult = Undefined

C24_Witness ==
    /\ apc = "returned"
    /\ aIn.args = <<"foo.example.com", "dep-123">>
    /\ aIn.contextName = "ctxA"
    /\ calls[1].id = "foo.example.com"
    /\ aResult = "dpl_1"

====
